---- MODULE Spec2Model ----
(***************************************************************************)
(* Reservation store of proj3/kernel/p3_rsv.c: set_rsv, cancel_rsv,        *)
(* wait_until_next_period, the hrtimer callback, the common teardown       *)
(* p3_free_entry and the exit callback p3_sched_exit_cb, as interleaved    *)
(* steps of kernel threads.  A step is a maximal run of code that no other *)
(* thread can observe half-done: a critical section of p3_rsv_lock, or one *)
(* access outside it.                                                      *)
(***************************************************************************)
EXTENDS Integers, Sequences, FiniteSets, TLC

\* ---------------------------------------------------------------- bounds
\* Capacity of the store (50 in the source, scaled so that a full store is
\* reachable).
P3_MAX_RSV == 3
\* Tasks (pids 1..NumTasks); the first NumCallers of them run: they issue
\* syscalls and they exit.  The others only are the target of a syscall.
NumTasks == 4
NumCallers == 2
\* Records the allocator can hand out at once (kzalloc fails beyond that).
NumSlots == 3
\* Timer expiries in one behaviour, in the same two cases.
MaxFires == 1
MaxSoloFires == 2
\* Operations that take effect in one behaviour (an insertion, a removal, a
\* task exit, a wait that found its reservation): when operations overlap
\* freely, and when each starts after the one before has returned.
MaxOps == 3
MaxSoloOps == 3

\* ------------------------------------------------------- program constants
MAX_RT_PRIO == 100
NSEC_PER_SEC == 1000000000

Tasks == 1..NumTasks
Callers == 1..NumCallers
Slots == 1..NumSlots
NULL == 0

\* Arguments a caller passes: <<C, T>>, each a struct timespec
\* <<tv_sec, tv_nsec>>: some that set_rsv accepts, and all of them.
CT_valid == { << <<0, 1>>, <<0, 1>> >>, << <<0, 1>>, <<0, 2>> >>,
              << <<0, 2>>, <<0, 2>> >> }

CT_inputs == CT_valid \cup
             { << <<0, 0>>, <<0, 1>> >>, << <<0, 1>>, <<0, 0>> >>,
               << <<0, 2>>, <<0, 1>> >>, << <<0, -1>>, <<0, 1>> >>,
               << <<0, 1>>, <<1, -1>> >> }

VARIABLES
  list,     \* p3_rsv_list: sequence of record slots, in list order
  rec,      \* the heap: slot -> struct p3_rsv_entry (or a free slot)
  lock,     \* holder of p3_rsv_lock, NULL when free
  sched,    \* task -> 0 (SCHED_NORMAL) or its SCHED_FIFO priority
  refs,     \* task -> references taken by get_task_struct and not yet put
  tstate,   \* task -> "alive" | "exiting" (PF_EXITING set) | "dead"
  pc,       \* task -> position of the thread
  loc,      \* task -> locals of the call in progress
  nops,     \* operations that took effect so far
  fires,    \* timer expiries so far
  mode,     \* "free": operations overlap; "solo": one operation at a time
  g,        \* history of the operation(s) run in isolation (ghost)
  dblFree   \* a record was released twice (ghost)

vars == <<list, rec, lock, sched, refs, tstate, pc, loc, nops, fires, mode, g, dblFree>>

\* ---------------------------------------------------------------- helpers
Min(S) == CHOOSE x \in S : \A y \in S : x <= y
Max(S) == CHOOSE x \in S : \A y \in S : x >= y

FreeRec == [alloc |-> FALSE, pid |-> 0, task |-> NULL, C_ns |-> 0, T_ns |-> 0,
            prio |-> 0, period_seq |-> 0, canceled |-> FALSE, timer |-> "off"]

IdleLoc == [op |-> "none", pid |-> 0, c_us |-> <<0, 0>>, t_us |-> <<0, 0>>,
            Cns |-> 0, Tns |-> 0, p |-> NULL, e |-> NULL, seen |-> 0,
            ret |-> "", stale |-> FALSE]

NoG == [tag |-> "none", pid |-> 0, T |-> 0, view |-> <<>>, view0 |-> <<>>,
        pseq |-> 0, rid |-> NULL, ret |-> ""]

\* ktime_set(secs, nsecs) for secs below KTIME_SEC_MAX
ktime_set(ts) == ts[1] * NSEC_PER_SEC + ts[2]

\* if (pid == 0) pid = current->pid;
EffPid(t, pid) == IF pid = 0 THEN t ELSE pid

\* pid_task(find_vpid(pid), PIDTYPE_PID): the task, or NULL once it is gone
pid_task(pid) == IF pid \in Tasks /\ tstate[pid] # "dead" THEN pid ELSE NULL

PF_EXITING(t) == tstate[t] # "alive"

\* p3_find_locked over a list lst and heap rc
FindIn(lst, rc, pid) ==
  LET idx == { i \in 1..Len(lst) : rc[lst[i]].pid = pid }
  IN  IF idx = {} THEN NULL ELSE lst[Min(idx)]

p3_find_locked(pid) == FindIn(list, rec, pid)

\* list_del that leaves the list as it is.
list_del_kept(lst, e) == lst

\* list_del(&e->node)
list_del(lst, e) == SelectSeq(lst, LAMBDA x : x # e)

\* ------------------------------------------------- the Rate-Monotonic pass
Swap(a, i, j) == [a EXCEPT ![i] = a[j], ![j] = a[i]]

\* The inner loop with the comparison turned round.
RECURSIVE SortInner_longestFirst(_, _, _, _)
SortInner_longestFirst(a, T, i, j) ==
  IF j > Len(a) THEN a
  ELSE SortInner_longestFirst(IF T[a[j]] > T[a[i]] THEN Swap(a, i, j) ELSE a,
                              T, i, j + 1)

\* for (j = i + 1; j < n; j++) if (T[arr[j]] < T[arr[i]]) swap
RECURSIVE SortInner(_, _, _, _)
SortInner(a, T, i, j) ==
  IF j > Len(a) THEN a
  ELSE SortInner(IF T[a[j]] < T[a[i]] THEN Swap(a, i, j) ELSE a, T, i, j + 1)

\* for (i = 0; i < n; i++) ...
RECURSIVE SortOuter(_, _, _)
SortOuter(a, T, i) ==
  IF i > Len(a) THEN a ELSE SortOuter(SortInner(a, T, i, i + 1), T, i + 1)

\* The collecting loop and the exchange sort: Ts is the sequence of periods
\* in list order; the result is arr as a sequence of positions in the list.
SortByPeriod(Ts) ==
  LET n == IF Len(Ts) < P3_MAX_RSV THEN Len(Ts) ELSE P3_MAX_RSV
  IN  SortOuter([k \in 1..n |-> k], Ts, 1)

\* The priority of rank k counted from MAX_RT_PRIO - 2.
RankPrio_oneBelow(k) ==
  LET prio == (MAX_RT_PRIO - 1) - k IN IF prio < 1 THEN 1 ELSE prio

\* int prio = (MAX_RT_PRIO - 1) - i; if (prio < 1) prio = 1;   (i = k - 1)
RankPrio(k) ==
  LET prio == (MAX_RT_PRIO - 1) - (k - 1) IN IF prio < 1 THEN 1 ELSE prio

\* Priorities by list position: position -> priority (0 for an entry the
\* collecting loop left out).
PrioByPos(Ts) ==
  LET arr == SortByPeriod(Ts)
  IN  [i \in 1..Len(Ts) |->
         IF \E k \in 1..Len(arr) : arr[k] = i
         THEN RankPrio(CHOOSE k \in 1..Len(arr) : arr[k] = i)
         ELSE 0]

\* p3_reassign_rm_prios_locked on list lst, heap rc, scheduler state sc
p3_reassign_rm_prios_locked(lst, rc, sc) ==
  LET Ts == [i \in 1..Len(lst) |-> rc[lst[i]].T_ns]
      pp == PrioByPos(Ts)
      hit(i) == pp[i] # 0
      pos(r) == { i \in 1..Len(lst) : lst[i] = r /\ hit(i) }
      tpos(t) == { i \in 1..Len(lst) : rc[lst[i]].task = t /\ hit(i) }
  IN  [rec   |-> [r \in Slots |->
                    IF pos(r) # {} THEN [rc[r] EXCEPT !.prio = pp[Max(pos(r))]]
                    ELSE rc[r]],
       sched |-> [t \in Tasks |->
                    IF tpos(t) # {} THEN pp[Max(tpos(t))] ELSE sc[t]]]

\* ------------------------------------------------------------ observation
\* The store as its users see it: the entries in list order.
ViewOf(lst, rc) ==
  [i \in 1..Len(lst) |-> [pid |-> rc[lst[i]].pid, C |-> rc[lst[i]].C_ns,
                          T |-> rc[lst[i]].T_ns, prio |-> rc[lst[i]].prio]]

StoreView == ViewOf(list, rec)

Quiescent == \A t \in Callers : pc[t] \in {"idle", "dead"}

\* ---------------------------------------------------------------- ghosts
\* g follows operations that run with no other operation in flight.  tag is
\* the operation ("set_cancel": a cancel_rsv right after the set_rsv of the
\* same pid succeeded, "cancel_set": the converse), pid its target, T the
\* period a set_rsv asked for, view the store when the operation started,
\* view0 the store when the operation before it started, rid and pseq the
\* record of pid and its sequence counter at that time, ret the result.
GFresh(tag, pid, T) ==
  [tag |-> tag, pid |-> pid, T |-> T, view |-> StoreView, view0 |-> <<>>,
   pseq |-> IF p3_find_locked(pid) = NULL THEN 0
            ELSE rec[p3_find_locked(pid)].period_seq,
   rid |-> p3_find_locked(pid), ret |-> ""]

GStart(op, pid, T) ==
  IF ~Quiescent \/ mode # "solo" THEN NoG
  ELSE CASE op = "set" ->
              IF g.tag = "cancel" /\ g.ret = "OK" /\ g.pid = pid
              THEN [g EXCEPT !.tag = "cancel_set", !.ret = "", !.T = T,
                             !.view0 = g.view, !.view = StoreView]
              ELSE GFresh("set", pid, T)
         [] op = "cancel" ->
              IF g.tag = "set" /\ g.ret = "OK" /\ g.pid = pid
              THEN [g EXCEPT !.tag = "set_cancel", !.ret = "",
                             !.view0 = g.view, !.view = StoreView,
                             !.rid = p3_find_locked(pid)]
              ELSE GFresh("cancel", pid, 0)
         [] op = "exit" -> GFresh("exit", pid, 0)
         [] OTHER -> NoG

GDone(gb, r) == IF gb.tag = "none" THEN NoG ELSE [gb EXCEPT !.ret = r]

\* ------------------------------------------------------------------- Init
InitWith(m) ==
  /\ mode = m
  /\ fires = 0
  /\ list = <<>>
  /\ rec = [r \in Slots |-> FreeRec]
  /\ lock = NULL
  /\ sched = [t \in Tasks |-> 0]
  /\ refs = [t \in Tasks |-> 0]
  /\ tstate = [t \in Tasks |-> "alive"]
  /\ pc = [t \in Callers |-> "idle"]
  /\ loc = [t \in Callers |-> IdleLoc]
  /\ nops = 0
  /\ g = NoG
  /\ dblFree = FALSE

Init == InitWith("free")

InitSolo == InitWith("solo")

\* Thread t may start an operation.
CanStart(t) ==
  /\ pc[t] = "idle"
  /\ tstate[t] = "alive"
  /\ IF mode = "solo" THEN Quiescent /\ nops < MaxSoloOps ELSE nops < MaxOps

\* The timer of a reservation may expire once more.
CanFire == fires < (IF mode = "solo" THEN MaxSoloFires ELSE MaxFires)

\* The pid a caller passes: the first task names any task, the others name
\* themselves (pid 0).
PidArgs(t) == IF t = 1 THEN 0..NumTasks ELSE {0}

\* The call of thread t, with locals l, returns r to user space; gb is the
\* history the call runs under.
Finish(t, l, r, gb) ==
  /\ pc' = [pc EXCEPT ![t] = "done"]
  /\ loc' = [loc EXCEPT ![t] = [IdleLoc EXCEPT !.op = l.op, !.pid = l.pid,
                                              !.c_us = l.c_us, !.t_us = l.t_us,
                                              !.ret = r]]
  /\ g' = GDone(gb, r)

\* wake_up_all(&e->wq) for the record in slot r: every sleeper on it runs
\* again and re-evaluates its wait condition.
wake_up_all(r, pcs) ==
  [t \in Callers |->
     IF pcs[t] = "w_sleep" /\ loc[t].e = r /\ ~loc[t].stale THEN "w_wait"
     ELSE pcs[t]]

\* ---------------------------------------------------------------- set_rsv
\* The argument checks without the comparison of C with T.
ArgsInvalid_noBudgetTest(c, tt) ==
  \/ c[1] < 0 \/ c[2] < 0 \/ tt[1] < 0 \/ tt[2] < 0
  \/ ktime_set(c) <= 0 \/ ktime_set(tt) <= 0

\* Lines 134-142: the argument checks of set_rsv on the two timespecs.
ArgsInvalid(c, tt) ==
  \/ c[1] < 0 \/ c[2] < 0 \/ tt[1] < 0 \/ tt[2] < 0
  \/ ktime_set(c) <= 0 \/ ktime_set(tt) <= 0
  \/ ktime_set(c) > ktime_set(tt)

\* Lines 128-148: copy and validate the arguments, resolve the task.
set_rsv_entry(t, pidArg, c, tt, ok) ==
  /\ CanStart(t)
  /\ LET pid == EffPid(t, pidArg)
         Cns == ktime_set(c)
         Tns == ktime_set(tt)
         p   == pid_task(pid)
         l0  == [IdleLoc EXCEPT !.op = "set", !.pid = pid, !.c_us = c, !.t_us = tt]
         g0  == GStart("set", pid, Tns)
         fail(r) == Finish(t, l0, r, g0) /\ UNCHANGED refs
     IN  IF ~ok THEN fail("EFAULT")
         ELSE IF ArgsInvalid(c, tt) THEN fail("EINVAL")
         ELSE IF p = NULL THEN fail("ESRCH")
         ELSE /\ pc' = [pc EXCEPT ![t] = "s_lock"]
              /\ loc' = [loc EXCEPT ![t] = [l0 EXCEPT !.Cns = Cns, !.Tns = Tns, !.p = p]]
              /\ refs' = [refs EXCEPT ![p] = @ + 1]
              /\ g' = g0
  /\ UNCHANGED <<list, rec, lock, sched, tstate, nops, dblFree, mode, fires>>

\* The locked section without the capacity test.
set_rsv_locked_noCapacity(t) ==
  /\ pc[t] = "s_lock"
  /\ lock = NULL
  /\ LET l == loc[t]
     IN  IF p3_find_locked(l.pid) # NULL
         THEN /\ Finish(t, l, "EBUSY", g)
              /\ refs' = [refs EXCEPT ![l.p] = @ - 1]
              /\ UNCHANGED lock
         ELSE /\ lock' = t
              /\ pc' = [pc EXCEPT ![t] = "s_alloc"]
              /\ UNCHANGED <<loc, refs, g>>
  /\ UNCHANGED <<list, rec, sched, tstate, nops, dblFree, mode, fires>>

\* The locked section without the duplicate test.
set_rsv_locked_noDuplicate(t) ==
  /\ pc[t] = "s_lock"
  /\ lock = NULL
  /\ LET l == loc[t]
     IN  IF Len(list) >= P3_MAX_RSV
         THEN /\ Finish(t, l, "ENOSPC", g)
              /\ refs' = [refs EXCEPT ![l.p] = @ - 1]
              /\ UNCHANGED lock
         ELSE /\ lock' = t
              /\ pc' = [pc EXCEPT ![t] = "s_alloc"]
              /\ UNCHANGED <<loc, refs, g>>
  /\ UNCHANGED <<list, rec, sched, tstate, nops, dblFree, mode, fires>>

\* Lines 150-163: take the lock, refuse a duplicate and a full store.
set_rsv_locked(t) ==
  /\ pc[t] = "s_lock"
  /\ lock = NULL
  /\ LET l == loc[t]
         fail(r) == /\ Finish(t, l, r, g)
                    /\ refs' = [refs EXCEPT ![l.p] = @ - 1]
                    /\ UNCHANGED lock
     IN  IF p3_find_locked(l.pid) # NULL THEN fail("EBUSY")
         ELSE IF Len(list) >= P3_MAX_RSV THEN fail("ENOSPC")
         ELSE /\ lock' = t
              /\ pc' = [pc EXCEPT ![t] = "s_alloc"]
              /\ UNCHANGED <<loc, refs, g>>
  /\ UNCHANGED <<list, rec, sched, tstate, nops, dblFree, mode, fires>>

\* A record that starts with a period already counted.
NewEntry_counted(l) ==
  [alloc |-> TRUE, pid |-> l.pid, task |-> l.p, C_ns |-> l.Cns, T_ns |-> l.Tns,
   prio |-> 0, period_seq |-> 1, canceled |-> FALSE, timer |-> "armed"]

\* Lines 172-183: the record as set_rsv fills it in (kzalloc zeroes prio).
NewEntry(l) ==
  [alloc |-> TRUE, pid |-> l.pid, task |-> l.p, C_ns |-> l.Cns, T_ns |-> l.Tns,
   prio |-> 0, period_seq |-> 0, canceled |-> FALSE, timer |-> "armed"]

\* list_add_tail(&e->node, &p3_rsv_list)
list_add_tail(lst, r) == Append(lst, r)

\* Lines 165-189: allocate under the lock, fill in, arm the timer, insert,
\* recompute, unlock.
set_rsv_insert(t) ==
  /\ pc[t] = "s_alloc"
  /\ lock = t
  /\ LET l == loc[t]
         free == { r \in Slots : ~rec[r].alloc }
     IN  IF free = {}
         THEN /\ Finish(t, l, "ENOMEM", g)
              /\ refs' = [refs EXCEPT ![l.p] = @ - 1]
              /\ UNCHANGED <<list, rec, sched, nops>>
         ELSE LET r == Min(free) IN
                LET lst == list_add_tail(list, r)
                    rc  == [rec EXCEPT ![r] = NewEntry(l)]
                    res == p3_reassign_rm_prios_locked(lst, rc, sched)
                IN  /\ list' = lst
                    /\ rec' = res.rec
                    /\ sched' = res.sched
                    /\ Finish(t, l, "OK", g)
                    /\ nops' = nops + 1
                    /\ UNCHANGED refs
  /\ lock' = NULL
  /\ UNCHANGED <<tstate, dblFree, mode, fires>>

\* ------------------------------------------------------------ p3_timer_cb
\* The callback reads canceled (line 86) and then counts the period (line
\* 89).  Only the write of canceled in p3_free_entry (line 100) can tell the
\* two apart, so the callback is split in two steps when a teardown of the
\* record is about to write it and is one step otherwise.
MarkPending(r) == \E t \in Callers : pc[t] = "f_mark" /\ loc[t].e = r

\* The callback counting the period without waking the sleepers.
p3_timer_cb_noWake(r) ==
  /\ rec[r].alloc
  /\ rec[r].timer = "armed"
  /\ IF rec[r].canceled
     THEN /\ rec' = [rec EXCEPT ![r].timer = "off"]
          /\ UNCHANGED fires
     ELSE /\ CanFire
          /\ rec' = [rec EXCEPT ![r].period_seq = @ + 1]
          /\ fires' = fires + 1
  /\ UNCHANGED <<list, lock, sched, refs, tstate, pc, loc, nops, g, dblFree, mode>>

\* Lines 84-93, in one step.
p3_timer_cb(r) ==
  /\ rec[r].alloc
  /\ rec[r].timer = "armed"
  /\ IF rec[r].canceled
     THEN /\ rec' = [rec EXCEPT ![r].timer = "off"]
          /\ UNCHANGED <<pc, fires>>
     ELSE /\ CanFire
          /\ rec' = [rec EXCEPT ![r].period_seq = @ + 1]
          /\ pc' = wake_up_all(r, pc)
          /\ fires' = fires + 1
  /\ UNCHANGED <<list, lock, sched, refs, tstate, loc, nops, g, dblFree, mode>>

\* Lines 86-87: the callback has read canceled = false and goes on.
p3_timer_cb_check(r) ==
  /\ rec[r].alloc
  /\ rec[r].timer = "armed"
  /\ ~rec[r].canceled
  /\ MarkPending(r)
  /\ CanFire
  /\ rec' = [rec EXCEPT ![r].timer = "running"]
  /\ UNCHANGED <<list, lock, sched, refs, tstate, pc, loc, nops, g, dblFree, mode, fires>>

\* Lines 89-92: count the period, re-arm, wake the sleepers.
p3_timer_cb_fire(r) ==
  /\ rec[r].timer = "running"
  /\ rec' = [rec EXCEPT ![r].period_seq = @ + 1, ![r].timer = "armed"]
  /\ pc' = wake_up_all(r, pc)
  /\ fires' = fires + 1
  /\ UNCHANGED <<list, lock, sched, refs, tstate, loc, nops, g, dblFree, mode>>

\* ------------------------------------------------------------- cancel_rsv
\* Lines 197-206: look the reservation up and unlink it under the lock.
cancel_rsv_lookup(t, pidArg) ==
  /\ CanStart(t)
  /\ lock = NULL
  /\ LET pid == EffPid(t, pidArg)
         e   == p3_find_locked(pid)
         l0  == [IdleLoc EXCEPT !.op = "cancel", !.pid = pid]
         g0  == GStart("cancel", pid, 0)
     IN  IF e = NULL
         THEN Finish(t, l0, "ENOENT", g0) /\ UNCHANGED <<list, nops>>
         ELSE /\ list' = list_del(list, e)
              /\ nops' = nops + 1
              /\ pc' = [pc EXCEPT ![t] = "f_mark"]
              /\ loc' = [loc EXCEPT ![t] = [l0 EXCEPT !.e = e]]
              /\ g' = g0
  /\ UNCHANGED <<rec, lock, sched, refs, tstate, dblFree, mode, fires>>

\* ---------------------------------------------------------- p3_free_entry
\* Lines 100-101: WRITE_ONCE(e->canceled, true), then hrtimer_cancel.  A
\* callback that starts after the write only disarms the timer, as
\* hrtimer_cancel does, so the two lines are one step unless a callback is
\* in flight; hrtimer_cancel then waits for it.
p3_free_entry_mark(t) ==
  /\ pc[t] = "f_mark"
  /\ LET e == loc[t].e
     IN  IF rec[e].timer = "running"
         THEN /\ rec' = [rec EXCEPT ![e].canceled = TRUE]
              /\ pc' = [pc EXCEPT ![t] = "f_timer"]
         ELSE /\ rec' = [rec EXCEPT ![e].canceled = TRUE, ![e].timer = "off"]
              /\ pc' = [pc EXCEPT ![t] = "f_rest"]
  /\ UNCHANGED <<list, lock, sched, refs, tstate, loc, nops, g, dblFree, mode, fires>>

\* Line 101: hrtimer_cancel returns once the callback in flight has ended.
p3_free_entry_timer(t) ==
  /\ pc[t] = "f_timer"
  /\ rec[loc[t].e].timer # "running"
  /\ rec' = [rec EXCEPT ![loc[t].e].timer = "off"]
  /\ pc' = [pc EXCEPT ![t] = "f_rest"]
  /\ UNCHANGED <<list, lock, sched, refs, tstate, loc, nops, g, dblFree, mode, fires>>

\* The teardown without the restore of the scheduling class.
p3_free_entry_rest_noRestore(t) ==
  /\ pc[t] = "f_rest"
  /\ LET e  == loc[t].e
         tk == rec[e].task
         users == { u \in Callers : pc[u] \in {"w_check", "w_wait", "w_sleep", "w_after"}
                                   /\ loc[u].e = e }
     IN  /\ pc' = [wake_up_all(e, pc) EXCEPT ![t] = "reassign"]
         /\ refs' = IF tk # NULL THEN [refs EXCEPT ![tk] = @ - 1] ELSE refs
         /\ dblFree' = (dblFree \/ ~rec[e].alloc)
         /\ rec' = [rec EXCEPT ![e] = FreeRec]
         /\ loc' = [u \in Callers |->
                      IF u \in users THEN [loc[u] EXCEPT !.stale = TRUE] ELSE loc[u]]
  /\ UNCHANGED <<list, lock, sched, tstate, nops, g, mode, fires>>

\* Lines 102-112: wake the sleepers, restore the scheduling class of a task
\* that is not exiting, drop the task reference, release the record.
p3_free_entry_rest(t) ==
  /\ pc[t] = "f_rest"
  /\ LET e  == loc[t].e
         tk == rec[e].task
         users == { u \in Callers : pc[u] \in {"w_check", "w_wait", "w_sleep", "w_after"}
                                   /\ loc[u].e = e }
     IN  /\ pc' = [wake_up_all(e, pc) EXCEPT ![t] = "reassign"]
         /\ sched' = IF tk # NULL /\ ~PF_EXITING(tk)
                      THEN [sched EXCEPT ![tk] = 0] ELSE sched
         /\ refs' = IF tk # NULL THEN [refs EXCEPT ![tk] = @ - 1] ELSE refs
         /\ dblFree' = (dblFree \/ ~rec[e].alloc)
         /\ rec' = [rec EXCEPT ![e] = FreeRec]
         /\ loc' = [u \in Callers |->
                      IF u \in users THEN [loc[u] EXCEPT !.stale = TRUE] ELSE loc[u]]
  /\ UNCHANGED <<list, lock, tstate, nops, g, mode, fires>>

\* cancel_rsv that returns without recomputing the priorities.
cancel_rsv_noReassign(t) ==
  /\ pc[t] = "reassign"
  /\ loc[t].op = "cancel"
  /\ lock = NULL
  /\ Finish(t, loc[t], "OK", g)
  /\ UNCHANGED <<list, rec, sched, lock, refs, tstate, nops, dblFree, mode, fires>>

\* Lines 210-215: cancel_rsv recomputes the remaining priorities.
cancel_rsv_reassign(t) ==
  /\ pc[t] = "reassign"
  /\ loc[t].op = "cancel"
  /\ lock = NULL
  /\ LET res == p3_reassign_rm_prios_locked(list, rec, sched)
     IN  /\ rec' = res.rec
         /\ sched' = res.sched
  /\ Finish(t, loc[t], "OK", g)
  /\ UNCHANGED <<list, lock, refs, tstate, nops, dblFree, mode, fires>>

\* ------------------------------------------------------- p3_sched_exit_cb
\* The task starts to exit: PF_EXITING is set before the exit tracepoint.
task_exit(t) ==
  /\ CanStart(t)
  /\ nops' = nops + 1
  /\ tstate' = [tstate EXCEPT ![t] = "exiting"]
  /\ pc' = [pc EXCEPT ![t] = "x_lookup"]
  /\ loc' = [loc EXCEPT ![t] = [IdleLoc EXCEPT !.op = "exit", !.pid = t]]
  /\ g' = GStart("exit", t, 0)
  /\ UNCHANGED <<list, rec, lock, sched, refs, dblFree, mode, fires>>

\* The exit callback tearing the reservation down without unlinking it.
p3_sched_exit_cb_lookup_noUnlink(t) ==
  /\ pc[t] = "x_lookup"
  /\ lock = NULL
  /\ LET e == p3_find_locked(t)
     IN  IF e # NULL
         THEN /\ loc' = [loc EXCEPT ![t].e = e]
              /\ pc' = [pc EXCEPT ![t] = "f_mark"]
         ELSE /\ pc' = [pc EXCEPT ![t] = "reassign"]
              /\ UNCHANGED loc
  /\ UNCHANGED <<list, rec, lock, sched, refs, tstate, nops, g, dblFree, mode, fires>>

\* Lines 257-261: unlink the exiting task's reservation, if it has one.
p3_sched_exit_cb_lookup(t) ==
  /\ pc[t] = "x_lookup"
  /\ lock = NULL
  /\ LET e == p3_find_locked(t)
     IN  IF e # NULL
         THEN /\ list' = list_del(list, e)
              /\ loc' = [loc EXCEPT ![t].e = e]
              /\ pc' = [pc EXCEPT ![t] = "f_mark"]
         ELSE /\ pc' = [pc EXCEPT ![t] = "reassign"]
              /\ UNCHANGED <<list, loc>>
  /\ UNCHANGED <<rec, lock, sched, refs, tstate, nops, g, dblFree, mode, fires>>

\* The exit callback without the recomputation.
p3_sched_exit_cb_noReassign(t) ==
  /\ pc[t] = "reassign"
  /\ loc[t].op = "exit"
  /\ lock = NULL
  /\ pc' = [pc EXCEPT ![t] = "dead"]
  /\ loc' = [loc EXCEPT ![t] = IdleLoc]
  /\ tstate' = [tstate EXCEPT ![t] = "dead"]
  /\ g' = GDone(g, "OK")
  /\ UNCHANGED <<list, rec, sched, lock, refs, nops, dblFree, mode, fires>>

\* Lines 266-270: the callback recomputes the survivors; the task is gone.
p3_sched_exit_cb_reassign(t) ==
  /\ pc[t] = "reassign"
  /\ loc[t].op = "exit"
  /\ lock = NULL
  /\ LET res == p3_reassign_rm_prios_locked(list, rec, sched)
     IN  /\ rec' = res.rec
         /\ sched' = res.sched
  /\ pc' = [pc EXCEPT ![t] = "dead"]
  /\ loc' = [loc EXCEPT ![t] = IdleLoc]
  /\ tstate' = [tstate EXCEPT ![t] = "dead"]
  /\ g' = GDone(g, "OK")
  /\ UNCHANGED <<list, lock, refs, nops, dblFree, mode, fires>>

\* ------------------------------------------------- wait_until_next_period
\* What a read through e returns: the field, or anything once the record
\* has been released under the reader.
ReadSeq(t) == IF loc[t].stale THEN 0..MaxSoloFires ELSE {rec[loc[t].e].period_seq}
ReadCanceled(t) == IF loc[t].stale THEN BOOLEAN ELSE {rec[loc[t].e].canceled}

\* A lookup that falls back on the first reservation of the list when the
\* caller has none.
wait_lookup_anyEntry(t) ==
  /\ CanStart(t)
  /\ lock = NULL
  /\ LET own == p3_find_locked(t)
         e   == IF own = NULL /\ Len(list) > 0 THEN list[1] ELSE own
         l0  == [IdleLoc EXCEPT !.op = "wait", !.pid = t]
     IN  IF e = NULL
         THEN Finish(t, l0, "ENOENT", NoG) /\ UNCHANGED nops
         ELSE /\ nops' = nops + 1
              /\ pc' = [pc EXCEPT ![t] = "w_check"]
              /\ loc' = [loc EXCEPT ![t] = [l0 EXCEPT !.e = e, !.seen = rec[e].period_seq]]
              /\ g' = NoG
  /\ UNCHANGED <<list, rec, lock, sched, refs, tstate, dblFree, mode, fires>>

\* Lines 225-232: look up the caller's reservation, read the sequence.
wait_lookup(t) ==
  /\ CanStart(t)
  /\ lock = NULL
  /\ LET e  == p3_find_locked(t)
         l0 == [IdleLoc EXCEPT !.op = "wait", !.pid = t]
     IN  IF e = NULL
         THEN Finish(t, l0, "ENOENT", NoG) /\ UNCHANGED nops
         ELSE /\ nops' = nops + 1
              /\ pc' = [pc EXCEPT ![t] = "w_check"]
              /\ loc' = [loc EXCEPT ![t] = [l0 EXCEPT !.e = e, !.seen = rec[e].period_seq]]
              /\ g' = NoG
  /\ UNCHANGED <<list, rec, lock, sched, refs, tstate, dblFree, mode, fires>>

\* Lines 234-235: the sequence moved between the two reads.
wait_check(t) ==
  /\ pc[t] = "w_check"
  /\ \E s \in ReadSeq(t) :
       IF s # loc[t].seen
       THEN Finish(t, loc[t], "OK", g)
       ELSE pc' = [pc EXCEPT ![t] = "w_wait"] /\ UNCHANGED <<loc, g>>
  /\ UNCHANGED <<list, rec, lock, sched, refs, tstate, nops, dblFree, mode, fires>>

\* A wait that goes to sleep without testing its condition once queued.
wait_event_noTest(t) ==
  /\ pc[t] = "w_wait"
  /\ pc' = [pc EXCEPT ![t] = "w_sleep"]
  /\ UNCHANGED <<list, rec, lock, sched, refs, tstate, loc, nops, g, dblFree, mode, fires>>

\* Lines 237-238: wait_event_interruptible evaluates its condition with the
\* caller already queued, and sleeps when it is false.
wait_event(t) ==
  /\ pc[t] = "w_wait"
  /\ \E s \in ReadSeq(t), c \in ReadCanceled(t) :
       pc' = [pc EXCEPT ![t] = IF s # loc[t].seen \/ c THEN "w_after" ELSE "w_sleep"]
  /\ UNCHANGED <<list, rec, lock, sched, refs, tstate, loc, nops, g, dblFree, mode, fires>>

\* An interrupted wait that counts the period as taken.
wait_interrupted_counting(t) ==
  /\ pc[t] \in {"w_wait", "w_sleep"}
  /\ \E s \in ReadSeq(t), c \in ReadCanceled(t) :
       /\ ~(s # loc[t].seen \/ c)
       /\ Finish(t, loc[t], "EINTR", g)
  /\ rec' = IF loc[t].stale THEN rec
            ELSE [rec EXCEPT ![loc[t].e].period_seq = @ + 1]
  /\ UNCHANGED <<list, lock, sched, refs, tstate, nops, dblFree, mode, fires>>

\* Lines 237-239: a signal ends the wait while the condition is false.
wait_interrupted(t) ==
  /\ pc[t] \in {"w_wait", "w_sleep"}
  /\ \E s \in ReadSeq(t), c \in ReadCanceled(t) :
       /\ ~(s # loc[t].seen \/ c)
       /\ Finish(t, loc[t], "EINTR", g)
  /\ UNCHANGED <<list, rec, lock, sched, refs, tstate, nops, dblFree, mode, fires>>

\* A sleeper queued on released memory may be woken by anything.
wait_stale_wake(t) ==
  /\ pc[t] = "w_sleep"
  /\ loc[t].stale
  /\ pc' = [pc EXCEPT ![t] = "w_wait"]
  /\ UNCHANGED <<list, rec, lock, sched, refs, tstate, loc, nops, g, dblFree, mode, fires>>

\* Lines 241-244: after the wait, canceled decides the result.
wait_after(t) ==
  /\ pc[t] = "w_after"
  /\ \E c \in ReadCanceled(t) :
       Finish(t, loc[t], IF c THEN "ENOENT" ELSE "OK", g)
  /\ UNCHANGED <<list, rec, lock, sched, refs, tstate, nops, dblFree, mode, fires>>

\* The syscall has returned; the thread is in user space again.
Return(t) ==
  /\ pc[t] = "done"
  /\ pc' = [pc EXCEPT ![t] = "idle"]
  /\ loc' = [loc EXCEPT ![t] = IdleLoc]
  /\ g' = IF g.tag \in {"set", "cancel"} /\ g.ret = "OK" THEN g ELSE NoG
  /\ UNCHANGED <<list, rec, lock, sched, refs, tstate, nops, dblFree, mode, fires>>

\* ------------------------------------------------------------------ Next
Next ==
  \/ \E t \in Callers : \E pidArg \in PidArgs(t), ct \in CT_valid :
       set_rsv_entry(t, pidArg, ct[1], ct[2], TRUE)
  \/ \E t \in Callers : set_rsv_locked(t)
  \/ \E t \in Callers : set_rsv_insert(t)
  \/ \E r \in Slots : p3_timer_cb(r)
  \/ \E r \in Slots : p3_timer_cb_check(r)
  \/ \E r \in Slots : p3_timer_cb_fire(r)
  \/ \E t \in Callers : \E pidArg \in PidArgs(t) : cancel_rsv_lookup(t, pidArg)
  \/ \E t \in Callers : p3_free_entry_mark(t)
  \/ \E t \in Callers : p3_free_entry_timer(t)
  \/ \E t \in Callers : p3_free_entry_rest(t)
  \/ \E t \in Callers : cancel_rsv_reassign(t)
  \/ \E t \in Callers : task_exit(t)
  \/ \E t \in Callers : p3_sched_exit_cb_lookup(t)
  \/ \E t \in Callers : p3_sched_exit_cb_reassign(t)
  \/ \E t \in Callers : wait_lookup(t)
  \/ \E t \in Callers : wait_check(t)
  \/ \E t \in Callers : wait_event(t)
  \/ \E t \in Callers : wait_interrupted(t)
  \/ \E t \in Callers : wait_stale_wake(t)
  \/ \E t \in Callers : wait_after(t)
  \/ \E t \in Callers : Return(t)

Spec == Init /\ [][Next]_vars

\* One operation at a time: the actions a thread can take when no two
\* operations overlap.
NextSolo ==
  \/ \E t \in Callers : \E pidArg \in PidArgs(t), ct \in CT_inputs :
       set_rsv_entry(t, pidArg, ct[1], ct[2], TRUE)
  \/ \E t \in Callers : set_rsv_entry(t, 0, <<0, 0>>, <<0, 0>>, FALSE)
  \/ \E t \in Callers : set_rsv_locked(t)
  \/ \E t \in Callers : set_rsv_insert(t)
  \/ \E r \in Slots : p3_timer_cb(r)
  \/ \E r \in Slots : p3_timer_cb_check(r)
  \/ \E r \in Slots : p3_timer_cb_fire(r)
  \/ \E t \in Callers : \E pidArg \in PidArgs(t) : cancel_rsv_lookup(t, pidArg)
  \/ \E t \in Callers : p3_free_entry_mark(t)
  \/ \E t \in Callers : p3_free_entry_timer(t)
  \/ \E t \in Callers : p3_free_entry_rest(t)
  \/ \E t \in Callers : cancel_rsv_reassign(t)
  \/ \E t \in Callers : task_exit(t)
  \/ \E t \in Callers : p3_sched_exit_cb_lookup(t)
  \/ \E t \in Callers : p3_sched_exit_cb_reassign(t)
  \/ \E t \in Callers : wait_lookup(t)
  \/ \E t \in Callers : wait_check(t)
  \/ \E t \in Callers : wait_event(t)
  \/ \E t \in Callers : wait_interrupted(t)
  \/ \E t \in Callers : wait_after(t)
  \/ \E t \in Callers : Return(t)

SpecSolo == InitSolo /\ [][NextSolo]_vars

\* Overlapping operations on the reservations of the two running tasks, with
\* one (C, T), under the scheduling the kernel gives: a thread inside a
\* syscall or the exit callback goes on running, an armed timer expires and
\* a callback that has started ends.  Entering a syscall, a signal, the exit
\* of a task, the end of an allocation and a wakeup out of released memory
\* are not owed to anyone.
CT_live == { << <<0, 1>>, <<0, 1>> >> }

PidArgsLive(t) == PidArgs(t) \cap (Callers \cup {0})

NextLive ==
  \/ \E t \in Callers : \E pidArg \in PidArgsLive(t), ct \in CT_live :
       set_rsv_entry(t, pidArg, ct[1], ct[2], TRUE)
  \/ \E t \in Callers : set_rsv_locked(t)
  \/ \E t \in Callers : set_rsv_insert(t)
  \/ \E r \in Slots : p3_timer_cb(r)
  \/ \E r \in Slots : p3_timer_cb_check(r)
  \/ \E r \in Slots : p3_timer_cb_fire(r)
  \/ \E t \in Callers : \E pidArg \in PidArgsLive(t) : cancel_rsv_lookup(t, pidArg)
  \/ \E t \in Callers : p3_free_entry_mark(t)
  \/ \E t \in Callers : p3_free_entry_timer(t)
  \/ \E t \in Callers : p3_free_entry_rest(t)
  \/ \E t \in Callers : cancel_rsv_reassign(t)
  \/ \E t \in Callers : task_exit(t)
  \/ \E t \in Callers : p3_sched_exit_cb_lookup(t)
  \/ \E t \in Callers : p3_sched_exit_cb_reassign(t)
  \/ \E t \in Callers : wait_lookup(t)
  \/ \E t \in Callers : wait_check(t)
  \/ \E t \in Callers : wait_event(t)
  \/ \E t \in Callers : wait_interrupted(t)
  \/ \E t \in Callers : wait_stale_wake(t)
  \/ \E t \in Callers : wait_after(t)
  \/ \E t \in Callers : Return(t)

\* The step of thread t inside a syscall or the exit callback, but for the
\* allocation of set_rsv: kzalloc(GFP_KERNEL) may wait for memory as long as
\* it takes.
KernelStep(t) ==
  \/ set_rsv_locked(t)
  \/ p3_free_entry_mark(t) \/ p3_free_entry_timer(t) \/ p3_free_entry_rest(t)
  \/ cancel_rsv_reassign(t)
  \/ p3_sched_exit_cb_lookup(t) \/ p3_sched_exit_cb_reassign(t)
  \/ wait_check(t) \/ wait_event(t) \/ wait_after(t)
  \/ Return(t)

\* The timer of record r expires, or its callback ends.
TimerStep(r) == p3_timer_cb(r) \/ p3_timer_cb_fire(r)

Fairness ==
  /\ \A t \in Callers : WF_vars(KernelStep(t))
  /\ \A r \in Slots : WF_vars(TimerStep(r))

SpecLive == Init /\ [][NextLive]_vars /\ Fairness

\* ------------------------------------------------------------ properties
InStore == { list[i] : i \in 1..Len(list) }

\* The priority of pid's reservation in the view v (-1 when it has none).
PrioOf(v, pid) ==
  LET idx == { i \in DOMAIN v : v[i].pid = pid }
  IN  IF idx = {} THEN -1 ELSE v[Min(idx)].prio

\* C and T are well-formed timespecs with C > 0, T > 0 and C <= T.
ValidCT(c, tt) ==
  /\ c[1] >= 0 /\ c[2] >= 0 /\ tt[1] >= 0 /\ tt[2] >= 0
  /\ ktime_set(c) > 0 /\ ktime_set(tt) > 0
  /\ ktime_set(c) <= ktime_set(tt)

\* The store cancel_rsv(pid) leaves when it starts from the view v: v without
\* pid's entry, with the priorities of the Rate-Monotonic pass.
CancelView(v, pid) ==
  LET w  == SelectSeq(v, LAMBDA x : x.pid # pid)
      pp == PrioByPos([i \in 1..Len(w) |-> w[i].T])
  IN  [i \in 1..Len(w) |-> [w[i] EXCEPT !.prio = pp[i]]]

\* Every task holds as many references as there are records that point to
\* it and set_rsv calls that resolved it and have not yet stored or dropped
\* it.
RefsExact ==
  \A k \in Tasks :
    refs[k] = Cardinality({ r \in Slots : rec[r].alloc /\ rec[r].task = k })
              + Cardinality({ t \in Callers : pc[t] \in {"s_lock", "s_alloc"}
                                              /\ loc[t].p = k })

\* C1: whenever p3_rsv_lock is free, of any two reservations in the store
\* the one with the strictly shorter period has the strictly higher
\* priority, whatever operations are in progress.
C1_RateMonotonicOrder ==
  lock = NULL =>
    \A a, b \in InStore : rec[a].T_ns < rec[b].T_ns => rec[a].prio > rec[b].prio

\* Two reservations of different periods are in the store while a teardown
\* has unlinked a third and has not yet recomputed the priorities.
C1_Witness ==
  /\ lock = NULL
  /\ \E a, b \in InStore : rec[a].T_ns < rec[b].T_ns
  /\ \E t \in Callers : pc[t] = "reassign"

\* C2: a set_rsv that runs alone and succeeds, for a task whose period is
\* strictly shorter than every period in the store, gives the new
\* reservation MAX_RT_PRIO - 1 and leaves every reservation that was there
\* one priority level below the one it had.
C2_NewShortestLowersAllByOne ==
  (/\ g.tag \in {"set", "cancel_set"}
   /\ g.ret = "OK"
   /\ \A i \in DOMAIN g.view : g.T < g.view[i].T)
  => /\ PrioOf(StoreView, g.pid) = MAX_RT_PRIO - 1
     /\ \A i \in DOMAIN g.view :
          PrioOf(StoreView, g.view[i].pid) = g.view[i].prio - 1

\* C3: set_rsv for a task X that succeeds, followed at once by cancel_rsv
\* for X, leaves every other reservation with the priority it had before X
\* was registered.
C3_RegisterCancelRoundTrip ==
  (g.tag = "set_cancel" /\ g.ret = "OK")
  => \A i \in DOMAIN g.view0 :
       PrioOf(StoreView, g.view0[i].pid) = g.view0[i].prio

\* The round trip has ended and X had a shorter period than a reservation
\* that was there before it.
C3_Witness ==
  /\ g.tag = "set_cancel"
  /\ g.ret = "OK"
  /\ \E i \in DOMAIN g.view0 : g.T < g.view0[i].T

\* C4: the store never holds more than P3_MAX_RSV reservations; a set_rsv
\* call that has passed the argument checks and resolved its task, for a
\* pid without a reservation, finds the store full, returns ENOSPC and
\* leaves the list, every record and every scheduling priority as they were.
C4_Capacity ==
  /\ [](Len(list) <= P3_MAX_RSV)
  /\ [][\A t \in Callers :
          (/\ pc[t] = "s_lock"
           /\ pc'[t] # "s_lock"
           /\ p3_find_locked(loc[t].pid) = NULL
           /\ Len(list) >= P3_MAX_RSV)
          => /\ pc'[t] = "done"
             /\ loc'[t].ret = "ENOSPC"
             /\ UNCHANGED <<list, rec, sched>>]_vars

\* A set_rsv has returned ENOSPC and the store is full.
C4_Witness ==
  \E t \in Callers :
    /\ pc[t] = "done"
    /\ loc[t].op = "set"
    /\ loc[t].ret = "ENOSPC"
    /\ Len(list) = P3_MAX_RSV

\* C5: no two reservations of the store have the same pid, under any
\* interleaving of set_rsv calls; a set_rsv call that has passed the
\* argument checks and resolved its task, for a pid that has a reservation,
\* returns EBUSY and leaves the list, every record (C, T, priority, sequence
\* counter, timer) and every scheduling priority as they were.
C5_OnePerTask ==
  /\ [](\A i, j \in 1..Len(list) :
          i # j => rec[list[i]].pid # rec[list[j]].pid)
  /\ [][\A t \in Callers :
          (/\ pc[t] = "s_lock"
           /\ pc'[t] # "s_lock"
           /\ p3_find_locked(loc[t].pid) # NULL)
          => /\ pc'[t] = "done"
             /\ loc'[t].ret = "EBUSY"
             /\ UNCHANGED <<list, rec, sched>>]_vars

\* Two set_rsv calls for the same pid have returned, one with success and
\* one with EBUSY.
C5_Witness ==
  \E t, u \in Callers :
    /\ pc[t] = "done" /\ loc[t].op = "set" /\ loc[t].ret = "OK"
    /\ pc[u] = "done" /\ loc[u].op = "set" /\ loc[u].ret = "EBUSY"
    /\ loc[t].pid = loc[u].pid

\* C6: a set_rsv whose arguments could be read succeeds only if C > 0, T > 0
\* and C <= T; with any other (C, T) it returns EINVAL, and the call that
\* returns EINVAL changes no list, record, scheduling priority or task
\* reference.
C6_ArgumentValidation ==
  /\ [](\A t \in Callers :
          (pc[t] = "done" /\ loc[t].op = "set" /\ loc[t].ret # "EFAULT")
          => LET C == ktime_set(loc[t].c_us)
                 T == ktime_set(loc[t].t_us)
             IN  /\ loc[t].ret = "OK" => (C > 0 /\ T > 0 /\ C <= T)
                 /\ ~(C > 0 /\ T > 0 /\ C <= T) => loc[t].ret = "EINVAL")
  /\ [][\A t \in Callers :
          (/\ pc[t] = "idle"
           /\ pc'[t] = "done"
           /\ loc'[t].op = "set"
           /\ loc'[t].ret = "EINVAL")
          => UNCHANGED <<list, rec, sched, refs>>]_vars

\* A set_rsv with C > T has returned EINVAL while the store holds a
\* reservation that was accepted with C = T.
C6_Witness ==
  /\ \E t \in Callers :
       /\ pc[t] = "done" /\ loc[t].op = "set" /\ loc[t].ret = "EINVAL"
       /\ ktime_set(loc[t].c_us) > ktime_set(loc[t].t_us)
       /\ ktime_set(loc[t].t_us) > 0
  /\ \E r \in InStore : rec[r].C_ns = rec[r].T_ns

\* C7: cancel_rsv for a pid that has no reservation returns ENOENT in one
\* step and changes no list, record, task reference or scheduling priority;
\* no record is ever released twice and no task reference dropped twice.
C7_CancelOfNothing ==
  /\ [](~dblFree /\ RefsExact)
  /\ [][\A t \in Callers :
          (/\ pc[t] = "idle"
           /\ pc'[t] # "idle"
           /\ loc'[t].op = "cancel"
           /\ p3_find_locked(loc'[t].pid) = NULL)
          => /\ pc'[t] = "done"
             /\ loc'[t].ret = "ENOENT"
             /\ UNCHANGED <<list, rec, refs, sched>>]_vars

\* Two cancel_rsv calls for the same pid have returned: one tore the
\* reservation down, the other found nothing.
C7_Witness ==
  \E t, u \in Callers :
    /\ pc[t] = "done" /\ loc[t].op = "cancel" /\ loc[t].ret = "OK"
    /\ pc[u] = "done" /\ loc[u].op = "cancel" /\ loc[u].ret = "ENOENT"
    /\ loc[t].pid = loc[u].pid

C9_WaitWithoutReservation ==
  [][\A t \in Callers :
       (/\ pc[t] = "idle"
        /\ pc'[t] # "idle"
        /\ loc'[t].op = "wait"
        /\ p3_find_locked(t) = NULL)
       => /\ pc'[t] = "done"
          /\ loc'[t].ret = "ENOENT"
          /\ \A u \in Callers \ {t} : pc'[u] = pc[u]
          /\ UNCHANGED <<list, rec, sched, refs>>]_vars

\* A wait has returned ENOENT while another task sleeps on its own
\* reservation.
C9_Witness ==
  \E t, u \in Callers :
    /\ pc[t] = "done" /\ loc[t].op = "wait" /\ loc[t].ret = "ENOENT"
    /\ pc[u] = "w_sleep"
    /\ Len(list) > 0

\* C10: when a task that holds a reservation terminates, the store ends in
\* the state cancel_rsv for that task produces from the same store: the
\* task has no reservation, its record is released with the timer stopped,
\* and the other reservations keep their parameters and have the priorities
\* of the Rate-Monotonic pass.
C10_ExitIsCancel ==
  (/\ g.tag \in {"exit", "cancel", "set_cancel"}
   /\ g.ret = "OK"
   /\ g.rid # NULL)
  => /\ FindIn(list, rec, g.pid) = NULL
     /\ ~rec[g.rid].alloc
     /\ rec[g.rid].timer = "off"
     /\ StoreView = CancelView(g.view, g.pid)

\* A task with a reservation has terminated and a reservation that stays
\* has a priority it did not have before.
C10_Witness ==
  /\ g.tag = "exit"
  /\ g.ret = "OK"
  /\ g.rid # NULL
  /\ \E i \in DOMAIN StoreView :
       StoreView[i].prio # PrioOf(g.view, StoreView[i].pid)

\* The positions of a thread inside p3_free_entry.
Teardown == {"f_mark", "f_timer", "f_rest"}

\* C11: when cancel_rsv and the exit callback, or two cancel_rsv calls, race
\* for one reservation, one of them unlinks the record and runs
\* p3_free_entry on it and the other finds nothing: no two threads tear the
\* same record down, a record in teardown is out of the list and not yet
\* released, no record is released twice and no task reference dropped
\* twice, and a cancel_rsv that comes while another thread tears the
\* reservation of its pid down returns ENOENT.
C11_ExactlyOnceTeardown ==
  /\ [](\A t, u \in Callers :
          (t # u /\ pc[t] \in Teardown /\ pc[u] \in Teardown)
          => loc[t].e # loc[u].e)
  /\ [](\A t \in Callers :
          pc[t] \in Teardown => (loc[t].e \notin InStore /\ rec[loc[t].e].alloc))
  /\ [](~dblFree /\ RefsExact)
  /\ [][\A t \in Callers :
          (/\ pc[t] = "idle"
           /\ pc'[t] # "idle"
           /\ loc'[t].op = "cancel"
           /\ p3_find_locked(loc'[t].pid) = NULL
           /\ \E u \in Callers \ {t} :
                pc[u] \in Teardown /\ rec[loc[u].e].pid = loc'[t].pid)
          => (pc'[t] = "done" /\ loc'[t].ret = "ENOENT")]_vars

\* The exit callback of a task is inside p3_free_entry for the task's
\* reservation and a cancel_rsv for the same task has returned ENOENT.
C11_Witness ==
  \E t, u \in Callers :
    /\ loc[t].op = "exit" /\ pc[t] \in Teardown
    /\ pc[u] = "done" /\ loc[u].op = "cancel" /\ loc[u].ret = "ENOENT"
    /\ loc[u].pid = t

\* The positions of a thread in wait_until_next_period after the lookup.
WaitStages == {"w_check", "w_wait", "w_sleep", "w_after"}

\* C12: once canceled is set in a reservation its period_seq is not
\* incremented again, and no wait_until_next_period call that looked that
\* reservation up returns success afterwards.
C12_NothingAfterCanceled ==
  [][/\ \A r \in Slots :
          (rec[r].alloc /\ rec[r].canceled /\ rec'[r].alloc)
          => rec'[r].period_seq = rec[r].period_seq
     /\ \A t \in Callers :
          (/\ pc[t] \in WaitStages
           /\ ~loc[t].stale
           /\ rec[loc[t].e].canceled
           /\ pc'[t] = "done")
          => loc'[t].ret # "OK"]_vars

\* C13: a task that sleeps in wait_until_next_period while its reservation
\* is torn down (canceled is set) is woken in the end and its call returns
\* ENOENT (or EINTR when a signal ends it); it does not stay blocked and
\* does not return success.
C13_SleeperSeesTeardown ==
  \A t \in Callers :
    (pc[t] = "w_sleep" /\ ~loc[t].stale /\ rec[loc[t].e].canceled)
    ~> (/\ pc[t] = "done"
        /\ loc[t].op = "wait"
        /\ loc[t].ret \in {"ENOENT", "EINTR"})

\* The reservation a waiting thread looked up is still in the store, not
\* cancelled and not released.
ActiveWait(t) ==
  /\ pc[t] \in WaitStages
  /\ ~loc[t].stale
  /\ loc[t].e \in InStore
  /\ ~rec[loc[t].e].canceled

\* C14: while the reservation stays active and its timer goes on expiring, a
\* wait_until_next_period call of the owner that no signal ends returns
\* success in the end: a call in progress leads to its return with success
\* (or EINTR), unless the reservation is torn down first or no timer expires
\* any more and none has expired since the call read the sequence.
C14_WaitReturns ==
  \A t \in Callers :
    ActiveWait(t)
    ~> \/ (pc[t] = "done" /\ loc[t].op = "wait" /\ loc[t].ret \in {"OK", "EINTR"})
       \/ (pc[t] \in WaitStages /\ ~ActiveWait(t))
       \/ (ActiveWait(t) /\ ~CanFire /\ rec[loc[t].e].period_seq = loc[t].seen)

\* A wait has returned success after a timer expiry and the reservation of
\* the caller is still active.
C14_Witness ==
  \E t \in Callers :
    /\ pc[t] = "done" /\ loc[t].op = "wait" /\ loc[t].ret = "OK"
    /\ fires > 0
    /\ p3_find_locked(t) # NULL
    /\ ~rec[p3_find_locked(t)].canceled

\* C15: when set_rsv, cancel_rsv or the exit cleanup has completed and no
\* operation is in progress, the n reservations of the store, ranked by
\* ascending period, have the priorities (MAX_RT_PRIO - 1) - rank: they are
\* pairwise distinct, they are the n values MAX_RT_PRIO - 1 down to
\* MAX_RT_PRIO - n, none is at the floor 1, and a shorter period never has
\* the lower priority.
C15_PriorityResult ==
  (Quiescent /\ lock = NULL)
  => LET n == Len(list)
     IN  /\ { rec[r].prio : r \in InStore } = (MAX_RT_PRIO - n)..(MAX_RT_PRIO - 1)
         /\ Cardinality(InStore) = n
         /\ \A r \in InStore : rec[r].prio > 1
         /\ \A a, b \in InStore :
              rec[a].prio > rec[b].prio => rec[a].T_ns <= rec[b].T_ns

\* No operation is in progress, the store is full and holds two periods, one
\* of them twice.
C15_Witness ==
  /\ Quiescent
  /\ lock = NULL
  /\ Len(list) = P3_MAX_RSV
  /\ \E a, b \in InStore : rec[a].T_ns < rec[b].T_ns
  /\ \E a, b \in InStore : a # b /\ rec[a].T_ns = rec[b].T_ns

\* C16: of two reservations with equal periods that both stay in the store,
\* the one that has the higher priority before a step has the higher
\* priority after it, whatever is registered or cancelled by the step.
C16_TieBreakKept ==
  [][\A a, b \in InStore :
       (/\ a \in { list'[i] : i \in 1..Len(list') }
        /\ b \in { list'[i] : i \in 1..Len(list') }
        /\ rec[a].T_ns = rec[b].T_ns
        /\ rec[a].prio > rec[b].prio
        /\ rec[b].prio > 0)
       => rec'[a].prio > rec'[b].prio]_vars

\* C17: for a wait_until_next_period call on a reservation that stays
\* active, a timer expiry after the call has read the sequence, before the
\* caller is suspended or after, makes the call return success: no caller
\* sleeps while the sequence differs from the one it read, and a call that
\* returns after such an expiry returns success.
C17_NoMissedWakeup ==
  /\ [](\A t \in Callers :
          (pc[t] = "w_sleep" /\ ActiveWait(t))
          => rec[loc[t].e].period_seq = loc[t].seen)
  /\ [][\A t \in Callers :
          (/\ ActiveWait(t)
           /\ rec[loc[t].e].period_seq # loc[t].seen
           /\ pc'[t] = "done")
          => loc'[t].ret = "OK"]_vars

\* The timer has expired after the caller passed the test of line 234 and
\* before wait_event_interruptible has tested its condition.
C17_Witness ==
  \E t \in Callers :
    /\ pc[t] = "w_wait"
    /\ ActiveWait(t)
    /\ rec[loc[t].e].period_seq # loc[t].seen

\* C18: a wait_until_next_period call that starts after an expiry of the
\* timer (as the second call of a task in one period does: it reads a
\* sequence that has already been counted up) returns success only after a
\* later expiry: when it returns success the sequence of its reservation
\* differs from the one it read, and if the reservation has been released
\* in between, more expiries have happened than the call had read.
C18_OneWaitPerExpiry ==
  [][\A t \in Callers :
       (/\ pc[t] \in WaitStages
        /\ loc[t].seen > 0
        /\ pc'[t] = "done"
        /\ loc'[t].ret = "OK")
       => IF loc[t].stale
          THEN fires > loc[t].seen
          ELSE rec[loc[t].e].period_seq # loc[t].seen]_vars

\* C19: a wait_until_next_period that a signal ends while the sequence has
\* not moved and the reservation is not cancelled returns EINTR and changes
\* nothing: the list, every record (period_seq, canceled, priority, timer),
\* the scheduling priorities, the task references and the lock are as
\* before, and the caller keeps nothing of the call, so a retry starts as a
\* first call does.
C19_InterruptedWait ==
  [][\A t \in Callers :
       (/\ ActiveWait(t)
        /\ rec[loc[t].e].period_seq = loc[t].seen
        /\ pc'[t] = "done"
        /\ pc[t] # "done")
       => /\ loc'[t] = [IdleLoc EXCEPT !.op = "wait", !.pid = t, !.ret = "EINTR"]
          /\ UNCHANGED <<list, rec, sched, refs, lock, fires>>]_vars

\* A wait has returned EINTR and the reservation of the caller is in the
\* store, not cancelled.
C19_Witness ==
  \E t \in Callers :
    /\ pc[t] = "done" /\ loc[t].op = "wait" /\ loc[t].ret = "EINTR"
    /\ p3_find_locked(t) # NULL
    /\ ~rec[p3_find_locked(t)].canceled

\* The positions whose next step may block: the allocation of set_rsv
\* (kzalloc with GFP_KERNEL), the synchronous timer disarm of p3_free_entry
\* (hrtimer_cancel) and the suspension of wait_until_next_period.
MayBlock == {"s_alloc", "f_mark", "f_timer", "w_wait", "w_sleep"}

\* C20: no thread holds p3_rsv_lock while it is suspended or about to run a
\* step that may block.
C20_NoBlockingUnderLock ==
  \A t \in Callers : lock = t => pc[t] \notin MayBlock

\* Task tk has a reservation in the store.
HasRsv(tk) == \E r \in InStore : rec[r].task = tk

\* No operation is in flight: every thread is in user space, has exited, or
\* holds the result its call is returning.
Completed == \A t \in Callers : pc[t] \in {"idle", "dead", "done"}

\* C21: once every set_rsv, cancel_rsv and exit cleanup has completed, every
\* task with a reservation in the store runs in the fixed-priority class at
\* the priority recorded in its reservation, and every task that is not
\* terminating and has no reservation is in the default class; a teardown
\* puts the task in the default class unless the task is terminating, and
\* then it leaves the task's scheduling state alone.
C21_SchedMatchesStore ==
  /\ [](Completed =>
          /\ \A r \in InStore :
               rec[r].prio >= 1 /\ sched[rec[r].task] = rec[r].prio
          /\ \A tk \in Tasks :
               tstate[tk] = "alive" /\ ~HasRsv(tk) => sched[tk] = 0)
  /\ [][\A t \in Callers :
          pc[t] = "f_rest" /\ pc'[t] = "reassign" /\ rec[loc[t].e].task # NULL =>
            LET tk == rec[loc[t].e].task
            IN  sched'[tk] = IF PF_EXITING(tk) THEN sched[tk] ELSE 0]_vars

\* A cancel_rsv of task 2 has succeeded and nothing is in flight, yet task 2
\* has a reservation: it registered again after the cancel unlinked the
\* first record (slot 1) and before the cancel released it, as the new
\* record is in slot 2; it runs at the priority of that reservation.
C21_Witness ==
  /\ Completed
  /\ pc[1] = "done" /\ loc[1].op = "cancel" /\ loc[1].pid = 2 /\ loc[1].ret = "OK"
  /\ nops = 3
  /\ ~rec[1].alloc
  /\ list = <<2>> /\ rec[2].task = 2
  /\ sched[2] = rec[2].prio /\ sched[2] >= 1

\* C22: wait_until_next_period never reads the sequence counter or the
\* cancelled flag of a record, and never sleeps on its wait queue, once
\* p3_free_entry has released the record.
C22_NoAccessAfterRelease ==
  \A t \in Callers : pc[t] \in WaitStages => ~loc[t].stale

\* C23: once the exit callback of a task has completed and no operation is
\* in flight, the store holds no reservation of that task.
C23_NoOrphanAfterExit ==
  Quiescent => \A r \in InStore : tstate[rec[r].pid] # "dead"

====
